---------------------------- MODULE Spec2Model ----------------------------
(* A state-machine model of src/reddit_downloader.py: the scheduler loop    *)
(* (__main__), one Session Loop run (main), the file fetcher                *)
(* (download_file) and the external-video resolver (RedGifsClient).         *)
(*                                                                          *)
(* A URL is a sequence of tokens (scheme, host, separators, path segments); *)
(* a title is a sequence of characters.  Network answers and local faults   *)
(* are inputs of the step that issues the request.                          *)
EXTENDS Integers, Sequences, FiniteSets, TLC

(***************************************************************************)
(* Bounds of the model                                                     *)
(***************************************************************************)
MaxPosts == 2       \* posts the feed yields in one run
MaxLimit == 2       \* largest CONSECUTIVE_SKIP_LIMIT tried
BodyLen == 2        \* chunks in a complete media body

(***************************************************************************)
(* The saved posts the feed may yield                                      *)
(***************************************************************************)
GalleryPost ==
  [ title |-> <<"g">>, url |-> <<"https://", "reddit.com", "/", "gallery", "/", "g1">>,
    is_gallery |-> TRUE, items |-> <<"m1", "m2">>,
    media_metadata |-> [m \in {"m1", "m2"} |->
                          IF m = "m1" THEN <<"image", "/", "jpg">> ELSE <<"image", "/", "png">>] ]

\* a gallery whose media_metadata lacks the item's media id
BrokenGalleryPost ==
  [ title |-> <<"b">>, url |-> <<"https://", "reddit.com", "/", "gallery", "/", "b1">>,
    is_gallery |-> TRUE, items |-> <<"m3">>,
    media_metadata |-> [m \in {"m1"} |-> <<"image", "/", "jpg">>] ]

ImagePost ==
  [ title |-> <<"M", "y", ":", " ", "P", "i", "c">>,
    url |-> <<"https://", "i.redd.it", "/", "abc", ".", "png">>,
    is_gallery |-> FALSE, items |-> <<>>, media_metadata |-> <<>> ]

\* direct-image host, extension outside the allow-list, video host in the path
WebpPost ==
  [ title |-> <<"w">>,
    url |-> <<"https://", "i.redd.it", "/", "redgifs.com", "/", "w1", ".", "webp">>,
    is_gallery |-> FALSE, items |-> <<>>, media_metadata |-> <<>> ]

VideoPost ==
  [ title |-> <<"v">>, url |-> <<"https://", "redgifs.com", "/", "watch", "/", "xyz123">>,
    is_gallery |-> FALSE, items |-> <<>>, media_metadata |-> <<>> ]

\* video host with no content identifier after the host
BareVideoPost ==
  [ title |-> <<"n">>, url |-> <<"https://", "redgifs.com", "/">>,
    is_gallery |-> FALSE, items |-> <<>>, media_metadata |-> <<>> ]

OtherPost ==
  [ title |-> <<"o">>, url |-> <<"https://", "youtube.com", "/", "v">>,
    is_gallery |-> FALSE, items |-> <<>>, media_metadata |-> <<>> ]

Catalog == { GalleryPost, BrokenGalleryPost, ImagePost, WebpPost, VideoPost,
             BareVideoPost, OtherPost }

NoPost == OtherPost

(***************************************************************************)
(* Text helpers                                                            *)
(***************************************************************************)
UnsafeChars == { "\\", "/", "*", "?", ":", "\"", "<", ">", "|" }

\* re.sub(r'[\\/*?:"<>|]', "", title)
sanitized_title(title) == SelectSeq(title, LAMBDA c : c \notin UnsafeChars)

\* "<tok>" in url
Contains(url, tok) == \E k \in 1..Len(url) : url[k] = tok

\* s.split(sep)[-1]
LastAfter(s, sep) ==
  IF \E k \in 1..Len(s) : s[k] = sep
    THEN LET k == CHOOSE j \in 1..Len(s) : s[j] = sep /\ \A h \in (j+1)..Len(s) : s[h] # sep
         IN  SubSeq(s, k + 1, Len(s))
    ELSE s

Separators == { "https://", "/", ".", "-", "?" }
IsAlnum(tok) == tok \notin Separators

\* re.search(r'redgifs\.com/(?:watch/|ifr/)?([a-zA-Z0-9]+)', url): <<id>> or <<>>
rg_match(url) ==
  LET At(k) == url[k] = "redgifs.com" /\ k + 1 <= Len(url) /\ url[k+1] = "/"
      Long(k) == /\ k + 4 <= Len(url)
                 /\ url[k+2] \in {"watch", "ifr"}
                 /\ url[k+3] = "/"
                 /\ IsAlnum(url[k+4])
      Short(k) == k + 2 <= Len(url) /\ IsAlnum(url[k+2])
      Hits == { k \in 1..Len(url) : At(k) /\ (Long(k) \/ Short(k)) }
  IN  IF Hits = {} THEN <<>>
      ELSE LET k == CHOOSE j \in Hits : \A h \in Hits : j <= h
           IN  IF Long(k) THEN <<url[k+4]>> ELSE <<url[k+2]>>

AllowedExtensions == { <<"jpg">>, <<"jpeg">>, <<"png">>, <<"gif">> }

(***************************************************************************)
(* Files                                                                   *)
(***************************************************************************)
\* f"{sanitized_title}_{i+1}.{media_type}" and f"{sanitized_title}.{ext}"
GalleryFilename(p, n) ==
  [ title |-> sanitized_title(p.title), idx |-> n,
    ext |-> LastAfter(p.media_metadata[p.items[n]], "/") ]
PlainFilename(p, ext) == [ title |-> sanitized_title(p.title), idx |-> 0, ext |-> ext ]

Filenames ==
  { GalleryFilename(GalleryPost, n) : n \in 1..Len(GalleryPost.items) }
    \cup { PlainFilename(ImagePost, LastAfter(ImagePost.url, ".")),
           PlainFilename(VideoPost, <<"mp4">>) }

NoFilename == [ title |-> <<>>, idx |-> 0, ext |-> <<>> ]

NoFile == [ exists |-> FALSE, size |-> 0 ]
File(n) == [ exists |-> TRUE, size |-> n ]


(***************************************************************************)
(* State                                                                   *)
(***************************************************************************)
VARIABLES
  CONSECUTIVE_SKIP_LIMIT,     \* configuration, fixed for the process
  saved,                      \* the posts of the user's saved list
  disk,                       \* DOWNLOAD_LOCATION: filename -> file
  token,                      \* redgifs_client.token, "" = None
  deleted_redgifs_count,
  skipped_files_count,
  consecutive_skipped_count,
  pc,                         \* "sleep" | "for" | "gallery"
  ended,                      \* how the latest run of main ended
  cycle,                      \* the download cycle: "none" yet, the "first", or a "later" one
  nposts,                     \* posts taken from the feed in this run
  post,                       \* the gallery post being expanded
  i,                          \* next gallery item (1-based)
  unattempted,                \* items of the latest gallery post not yet passed to download_file
  streak,                     \* units that ended Skipped in a row, in this run
  last,                       \* the unit of work the latest step processed, if any
  session,                    \* the requests.Session of the run: "none", the "first", a "later" one
  wire                        \* the request passing through the session's adapter

vars == << CONSECUTIVE_SKIP_LIMIT, saved, disk, token,
           deleted_redgifs_count, skipped_files_count, consecutive_skipped_count,
           pc, ended, cycle, nposts, post, i, unattempted, streak, last,
           session, wire >>

(***************************************************************************)
(* Requests and answers                                                    *)
(***************************************************************************)
\* a request as issued: the token it carries (META) or obtains (AUTH), and the
\* answer of the metadata endpoint
Req(op, tok, ans) == [ op |-> op, tok |-> tok, ans |-> ans ]

\* the HEAD of a media URL: a connection failure, or an answer whose
\* content-length header is absent, unparseable, or a number
HeadAnswers ==
  { [kind |-> a, n |-> 0] : a \in {"conn", "absent", "garbage"} }
    \cup { [kind |-> "num", n |-> n] : n \in 0..BodyLen }

NoHead == [kind |-> "none", n |-> 0]
NoGet == [kind |-> "none", k |-> 0]

\* the GET of a media URL: a complete body, a non-2xx status, a connection
\* failure, a stream that breaks after k chunks, or a local disk failure when
\* the destination is opened or after k chunks were written
GetAnswers ==
  { [kind |-> a, k |-> 0] : a \in {"ok", "http", "conn", "open_oserror"} }
    \cup { [kind |-> a, k |-> k] : a \in {"break", "write_oserror"}, k \in 0..(BodyLen - 1) }

\* the metadata call: 200 with an HD url, 200 without one, 401, 410, another
\* error status, or a connection failure
MetaAnswers == { "hd", "nohd", "401", "410", "500", "conn" }
NoMeta == "none"

\* the auth call: "" = it failed or the body has no token, else the token.
\* The code never compares tokens, so a token handed out is named apart from
\* the one the client held: a replaced header shows in the requests
Tokens == { "tokA", "tokB" }
Fresh(held) == IF held = "tokA" THEN "tokB" ELSE "tokA"
AuthAnswers(held) == { "", Fresh(held) }

(***************************************************************************)
(* download_file                                                           *)
(***************************************************************************)
\* variant: the check_size flag is read the wrong way round
CheapSkip_Inverted(exists, check_size) == exists /\ check_size

\* os.path.exists(filepath) and not check_size
CheapSkip(exists, check_size) == exists /\ ~check_size

\* variant: the guard against a zero or absent length is missing
SizeMatches_NoGuard(remote_size, local_size) == remote_size = local_size

\* remote_size > 0 and remote_size == local_size
SizeMatches(remote_size, local_size) == remote_size > 0 /\ remote_size = local_size

\* int(head_response.headers.get('content-length', 0))
remote_size(head) == IF head.kind = "num" THEN head.n ELSE 0

\* variant: a probe that raises is taken for a missing length
ProbeFails_Never(head) == FALSE

\* the HEAD request or the int() conversion raises
ProbeFails(head) == head.kind \in {"conn", "garbage"}

\* variant: the destination is opened before the status is looked at
Download_OpenFirst(d, f, get, reqs) ==
  [ ret |-> "False",
    outcome |-> IF get.kind = "ok" THEN "Downloaded" ELSE "Failed",
    reqs |-> Append(reqs, Req("GET", "", "")),
    disk |-> [d EXCEPT ![f] = File(IF get.kind = "ok" THEN BodyLen ELSE 0)] ]

\* lines 138-148: the GET, the write and the handler of RequestException
Download(d, f, get, reqs) ==
  LET rq == Append(reqs, Req("GET", "", "")) IN
  CASE get.kind = "ok" ->
         [ ret |-> "False", outcome |-> "Downloaded", reqs |-> rq,
           disk |-> [d EXCEPT ![f] = File(BodyLen)] ]
    [] get.kind \in {"http", "conn"} ->
         [ ret |-> "False", outcome |-> "Failed", reqs |-> rq, disk |-> d ]
    [] get.kind = "break" ->
         [ ret |-> "False", outcome |-> "Failed", reqs |-> rq,
           disk |-> [d EXCEPT ![f] = File(get.k)] ]
    [] get.kind = "open_oserror" ->
         [ ret |-> "raise", outcome |-> "Failed", reqs |-> rq, disk |-> d ]
    [] get.kind = "write_oserror" ->
         [ ret |-> "raise", outcome |-> "Failed", reqs |-> rq,
           disk |-> [d EXCEPT ![f] = File(get.k)] ]

\* variant: the existence of the destination is not looked at
ReachesGet_Always(d, f, check_size, head) == TRUE

\* the call reaches the GET of line 139
ReachesGet(d, f, check_size, head) ==
  \/ ~d[f].exists
  \/ /\ ~CheapSkip(d[f].exists, check_size)
     /\ ~ProbeFails(head)
     /\ ~SizeMatches(remote_size(head), d[f].size)

download_file(d, f, check_size, head, get) ==
  LET probe == IF d[f].exists /\ ~CheapSkip(d[f].exists, check_size)
                 THEN <<Req("HEAD", "", "")>> ELSE <<>>
  IN  IF ReachesGet(d, f, check_size, head)
        THEN Download(d, f, get, probe)
      ELSE IF CheapSkip(d[f].exists, check_size)
        THEN [ ret |-> "True", outcome |-> "Skipped", reqs |-> probe, disk |-> d ]
      ELSE IF ProbeFails(head)
        THEN [ ret |-> "False", outcome |-> "Failed", reqs |-> probe, disk |-> d ]
      ELSE [ ret |-> "True", outcome |-> "Skipped", reqs |-> probe, disk |-> d ]

\* the answers a call can meet: a request that is not issued has none
HeadsFor(d, f, check_size) ==
  IF d[f].exists /\ ~CheapSkip(d[f].exists, check_size) THEN HeadAnswers ELSE {NoHead}
GetsFor(d, f, check_size, head) ==
  IF ReachesGet(d, f, check_size, head) THEN GetAnswers ELSE {NoGet}

(***************************************************************************)
(* RedGifsClient                                                           *)
(***************************************************************************)
\* _authenticate: self.token = data.get('token'), or None on any exception
authenticate(answer) == answer

\* variant: the retried call keeps the stale header
RetryToken_Stale(old, new) == old

\* headers['Authorization'] of the retried call
RetryToken(old, new) == new

\* the call is retried after a 401 and a re-authentication that gave a token
Retries(resp, newtok) == resp = "401" /\ newtok # ""

\* variant: a 410 is logged and swallowed like any other status
Reraised_Never(status) == FALSE

\* the HTTPError handler re-raises
Reraised(status) == status = "410"

\* what get_media_info does with the final response
Answer(resp) ==
  CASE resp \in {"hd", "nohd"} -> resp
    [] Reraised(resp) -> "raise410"
    [] OTHER -> "None"

get_media_info(tok, auth1, resp1, auth2, resp2) ==
  LET t1 == IF tok = "" THEN authenticate(auth1) ELSE tok
      r0 == IF tok = "" THEN <<Req("AUTH", t1, "")>> ELSE <<>>
  IN  IF t1 = ""
        THEN [ ret |-> "None", token |-> "", reqs |-> r0 ]
      ELSE IF resp1 = "401"
        THEN LET t2 == authenticate(auth2)
                 r1 == r0 \o <<Req("META", t1, resp1), Req("AUTH", t2, "")>>
             IN  IF Retries(resp1, t2)
                   THEN [ ret |-> Answer(resp2), token |-> t2,
                          reqs |-> Append(r1, Req("META", RetryToken(t1, t2), resp2)) ]
                   ELSE [ ret |-> Answer(resp1), token |-> t2, reqs |-> r1 ]
      ELSE [ ret |-> Answer(resp1), token |-> t1,
             reqs |-> Append(r0, Req("META", t1, resp1)) ]

(***************************************************************************)
(* main: the loop over the saved posts                                     *)
(***************************************************************************)
\* variant: a limit of 0 is a limit like any other
BreakerReached_NoGuard(c) == c >= CONSECUTIVE_SKIP_LIMIT

\* variant: the limit has to be exceeded, not reached
BreakerReached_Exceeded(c) == CONSECUTIVE_SKIP_LIMIT > 0 /\ c > CONSECUTIVE_SKIP_LIMIT

\* CONSECUTIVE_SKIP_LIMIT > 0 and consecutive_skipped_count >= CONSECUTIVE_SKIP_LIMIT
BreakerReached(c) == CONSECUTIVE_SKIP_LIMIT > 0 /\ c >= CONSECUTIVE_SKIP_LIMIT

\* variant: a skip is not counted
SkippedAfter_Never(ret, n) == n

\* if download_file(...): skipped += 1; consecutive += 1   else: consecutive = 0
SkippedAfter(ret, n) == IF ret = "True" THEN n + 1 ELSE n
ConsecutiveAfter(ret, n) == IF ret = "True" THEN n + 1 ELSE 0

\* "i.redd.it" in post.url or "i.imgur.com" in post.url
IsDirectHost(url) == Contains(url, "i.redd.it") \/ Contains(url, "i.imgur.com")
\* "redgifs.com" in post.url
IsVideoHost(url) == Contains(url, "redgifs.com")

\* the branch of the loop body that takes the post
Branch(p) ==
  IF p.is_gallery THEN "gallery"
  ELSE IF IsDirectHost(p.url) THEN "direct"
  ELSE IF IsVideoHost(p.url) THEN "video"
  ELSE "none"

\* the record of one unit of work: its post, branch, destination, outcome, the requests
\* it issued, whether an exception was raised in it, the answers it got and the
\* destination file as it was before
Unit(p, kind, f, outcome, reqs, exc, head, get) ==
  [ post |-> p, kind |-> kind, file |-> f, outcome |-> outcome, reqs |-> reqs, exc |-> exc,
    head |-> head, get |-> get,
    before |-> IF f \in Filenames THEN disk[f] ELSE NoFile ]

NoUnit ==
  [ post |-> NoPost, kind |-> "none", file |-> NoFilename, outcome |-> "none", reqs |-> <<>>,
    exc |-> FALSE, head |-> NoHead, get |-> "none", before |-> NoFile ]

StreakAfter(outcome) == IF outcome = "Skipped" THEN streak + 1 ELSE 0

\* an exception leaves main: the scheduler loop catches it
Escapes(how) ==
  /\ pc' = "sleep"
  /\ ended' = how
  /\ post' = NoPost
  /\ i' = 0

\* the unit called download_file, which returned r.ret; where the loop goes next
AfterDownload(r, backTo, nextPost, nextI) ==
  /\ disk' = r.disk
  /\ IF r.ret = "raise"
       THEN /\ Escapes("exception")
            /\ UNCHANGED << skipped_files_count, consecutive_skipped_count >>
       ELSE /\ skipped_files_count' = SkippedAfter(r.ret, skipped_files_count)
            /\ consecutive_skipped_count' = ConsecutiveAfter(r.ret, consecutive_skipped_count)
            /\ IF BreakerReached(consecutive_skipped_count')
                 THEN Escapes("breaker")
                 ELSE /\ pc' = backTo
                      /\ ended' = "none"
                      /\ post' = nextPost
                      /\ i' = nextI

(***************************************************************************)
(* The session of main and the retry policy of its adapter                 *)
(***************************************************************************)
\* Retry(total=5, status_forcelist=[...], allowed_methods=[...])
total == 5
status_forcelist == { 500, 502, 503, 504 }
allowed_methods == { "HEAD", "GET", "OPTIONS", "POST" }

\* what one attempt of a request meets: a status, a failure to connect, or a
\* failure while the response is read
Statuses == { 200, 404, 500, 502, 503, 504 }
RawAnswers ==
  { [kind |-> "status", code |-> c] : c \in Statuses }
    \cup { [kind |-> k, code |-> 0] : k \in {"connect", "read"} }
NoRaw == [kind |-> "none", code |-> 0]

\* the methods sent through the session: HEAD and GET by download_file, POST
\* and GET by the Reddit client, which is given the same session (line 177)
Methods == { "HEAD", "GET", "POST" }

Idle == [ method |-> "none", sent |-> 0, answer |-> NoRaw, state |-> "idle" ]

\* the adapter's policy: an attempt that failed to connect is always a
\* candidate for a retry, a read failure or a status only for an allowed
\* method, and a status only when it is in the force list
is_retry(method, raw) ==
  CASE raw.kind = "connect" -> TRUE
    [] raw.kind = "read" -> method \in allowed_methods
    [] OTHER -> method \in allowed_methods /\ raw.code \in status_forcelist

\* a request is handed to the session of the run
Send ==
  /\ pc = "for"
  /\ wire.state # "waiting"
  /\ \E m \in Methods :
       wire' = [ method |-> m, sent |-> 1, answer |-> NoRaw, state |-> "waiting" ]
  /\ UNCHANGED << CONSECUTIVE_SKIP_LIMIT, saved, disk, token, deleted_redgifs_count,
                  skipped_files_count, consecutive_skipped_count, pc, ended, cycle,
                  nposts, post, i, unattempted, streak, last, session >>

\* an attempt is answered: the adapter sends the request again while the
\* policy asks for it and retries are left, else the caller gets the response
\* or the exception
Respond ==
  /\ wire.state = "waiting"
  /\ \E raw \in RawAnswers :
       wire' = IF is_retry(wire.method, raw) /\ wire.sent - 1 < total
                 THEN [wire EXCEPT !.sent = @ + 1, !.answer = raw]
               ELSE IF raw.kind = "status" /\ ~is_retry(wire.method, raw)
                 THEN [wire EXCEPT !.answer = raw, !.state = "returned"]
               ELSE [wire EXCEPT !.answer = raw, !.state = "raised"]
  /\ UNCHANGED << CONSECUTIVE_SKIP_LIMIT, saved, disk, token, deleted_redgifs_count,
                  skipped_files_count, consecutive_skipped_count, pc, ended, cycle,
                  nposts, post, i, unattempted, streak, last, session >>

\* the process starts: configuration read, nothing downloaded yet
Start ==
  /\ session = "none"
  /\ wire = Idle
  /\ CONSECUTIVE_SKIP_LIMIT \in 0..MaxLimit
  /\ disk = [f \in Filenames |-> NoFile]
  /\ token = ""
  /\ deleted_redgifs_count = 0
  /\ skipped_files_count = 0
  /\ consecutive_skipped_count = 0
  /\ pc = "sleep"
  /\ ended = "none"
  /\ cycle = "none"
  /\ nposts = 0
  /\ post = NoPost
  /\ i = 0
  /\ unattempted = 0
  /\ streak = 0
  /\ last = NoUnit


\* variant: the scheduler loop handles connection errors only
Caught_ConnectionOnly(how) == how = "connection"

\* except (prawcore RequestException, requests RequestException) ... except Exception
Caught(how) == how = "connection" \/ how = "exception"

\* main() raised: how it ended names the handler that has to take it
Raised == ended \in {"connection", "exception"}

\* the environment's default of the polling interval, in seconds
TIME_BETWEEN_DOWNLOADS == 3600

\* the time.sleep() of the scheduler loop that follows the run: lines 287, 295
Naptime == IF ended = "connection" THEN 60 ELSE TIME_BETWEEN_DOWNLOADS

\* variant: the counters are module-level and survive the run
StartCycle_KeepsCounters ==
  /\ pc = "sleep"
  /\ Raised => Caught(ended)
  /\ cycle' = (IF cycle = "none" THEN "first" ELSE "later")
  /\ session' = (IF session = "none" THEN "first" ELSE "later")
  /\ pc' = "for"
  /\ ended' = "none"
  /\ token' = ""
  /\ nposts' = 0
  /\ unattempted' = 0
  /\ streak' = 0
  /\ last' = NoUnit
  /\ UNCHANGED << CONSECUTIVE_SKIP_LIMIT, saved, disk, post, i, wire,
                  deleted_redgifs_count, skipped_files_count, consecutive_skipped_count >>

\* __main__ calls main(): lines 150-188
StartCycle ==
  /\ pc = "sleep"
  /\ Raised => Caught(ended)
  /\ cycle' = (IF cycle = "none" THEN "first" ELSE "later")
  /\ session' = (IF session = "none" THEN "first" ELSE "later")
  /\ pc' = "for"
  /\ ended' = "none"
  /\ token' = ""
  /\ deleted_redgifs_count' = 0
  /\ skipped_files_count' = 0
  /\ consecutive_skipped_count' = 0
  /\ nposts' = 0
  /\ unattempted' = 0
  /\ streak' = 0
  /\ last' = NoUnit
  /\ UNCHANGED << CONSECUTIVE_SKIP_LIMIT, saved, disk, post, i, wire >>

\* the feed has no more posts: lines 272-276, main returns
FeedExhausted ==
  /\ pc = "for"
  /\ pc' = "sleep"
  /\ ended' = "exhausted"
  /\ last' = NoUnit
  /\ UNCHANGED << CONSECUTIVE_SKIP_LIMIT, saved, session, wire, disk, token, deleted_redgifs_count,
                  skipped_files_count, consecutive_skipped_count, cycle, nposts, post, i,
                  unattempted, streak >>

\* fetching the next page of the feed raises a connection error
FeedError ==
  /\ pc = "for"
  /\ pc' = "sleep"
  /\ ended' = "connection"
  /\ last' = NoUnit
  /\ UNCHANGED << CONSECUTIVE_SKIP_LIMIT, saved, session, wire, disk, token, deleted_redgifs_count,
                  skipped_files_count, consecutive_skipped_count, cycle, nposts, post, i,
                  unattempted, streak >>

\* one gallery item: lines 195-212
GalleryItem ==
  \E p \in saved :
    /\ \/ pc = "for" /\ nposts < MaxPosts /\ Branch(p) = "gallery" /\ Len(p.items) > 0
       \/ pc = "gallery" /\ p = post
    /\ LET n == IF pc = "for" THEN 1 ELSE i
           more == n < Len(p.items)
       IN  /\ nposts' = IF pc = "for" THEN nposts + 1 ELSE nposts
           /\ IF p.items[n] \notin DOMAIN p.media_metadata
                THEN \* post.media_metadata[media_id] raises KeyError
                     /\ Escapes("exception")
                     /\ unattempted' = IF pc = "for" THEN Len(p.items) ELSE unattempted
                     /\ last' = Unit(p, "gallery", NoFilename, "Failed", <<>>, TRUE, NoHead, "none")
                     /\ streak' = 0
                     /\ UNCHANGED << disk, skipped_files_count, consecutive_skipped_count >>
                ELSE \E get \in GetsFor(disk, GalleryFilename(p, n), FALSE, NoHead) :
                     LET f == GalleryFilename(p, n)
                         r == download_file(disk, f, FALSE, NoHead, get)
                     IN  /\ AfterDownload(r, IF more THEN "gallery" ELSE "for",
                                          IF more THEN p ELSE NoPost,
                                          IF more THEN n + 1 ELSE 0)
                         /\ unattempted' = IF pc = "for" THEN Len(p.items) - 1 ELSE unattempted - 1
                         /\ last' = Unit(p, "gallery", f, r.outcome, r.reqs, r.ret = "raise", NoHead,
                                         get.kind)
                         /\ streak' = StreakAfter(r.outcome)
    /\ UNCHANGED << CONSECUTIVE_SKIP_LIMIT, saved, session, wire, token, deleted_redgifs_count,
                    cycle >>

\* a post on a direct-image host: lines 215-229
DirectImage ==
  \E p \in saved :
    /\ pc = "for" /\ nposts < MaxPosts /\ Branch(p) = "direct"
    /\ nposts' = nposts + 1
    /\ LET file_extension == LastAfter(p.url, ".") IN
       IF file_extension \in AllowedExtensions
         THEN \E get \in GetsFor(disk, PlainFilename(p, file_extension), FALSE, NoHead) :
              LET f == PlainFilename(p, file_extension)
                  r == download_file(disk, f, FALSE, NoHead, get)
              IN  /\ AfterDownload(r, "for", NoPost, 0)
                  /\ last' = Unit(p, "image", f, r.outcome, r.reqs, r.ret = "raise", NoHead,
                                  get.kind)
                  /\ streak' = StreakAfter(r.outcome)
         ELSE /\ last' = Unit(p, "image", NoFilename, "Ignored", <<>>, FALSE, NoHead, "none")
              /\ streak' = 0
              /\ UNCHANGED << disk, skipped_files_count, consecutive_skipped_count, pc,
                              ended, post, i >>
    /\ UNCHANGED << CONSECUTIVE_SKIP_LIMIT, saved, session, wire, token, deleted_redgifs_count,
                    cycle, unattempted >>

\* variant: a post matching no branch breaks the run of skips
Ignored_Resets ==
  \E p \in saved :
    /\ pc = "for" /\ nposts < MaxPosts /\ Branch(p) = "none"
    /\ nposts' = nposts + 1
    /\ last' = Unit(p, "other", NoFilename, "Ignored", <<>>, FALSE, NoHead, "none")
    /\ streak' = 0
    /\ consecutive_skipped_count' = 0
    /\ UNCHANGED << CONSECUTIVE_SKIP_LIMIT, saved, session, wire, disk, token,
                    deleted_redgifs_count, skipped_files_count,
                    pc, ended, cycle, post, i, unattempted >>

\* a post matching no branch: the loop body falls through
Ignored ==
  \E p \in saved :
    /\ pc = "for" /\ nposts < MaxPosts /\ Branch(p) = "none"
    /\ nposts' = nposts + 1
    /\ last' = Unit(p, "other", NoFilename, "Ignored", <<>>, FALSE, NoHead, "none")
    /\ streak' = 0
    /\ UNCHANGED << CONSECUTIVE_SKIP_LIMIT, saved, session, wire, disk, token,
                    deleted_redgifs_count, skipped_files_count, consecutive_skipped_count,
                    pc, ended, cycle, post, i, unattempted >>

HasReq(reqs, op) == \E k \in 1..Len(reqs) : reqs[k].op = op

\* except HTTPError as e: if e.response.status_code == 410: deleted_redgifs_count += 1
DeletedAfter(ret, n) == IF ret = "raise410" THEN n + 1 ELSE n

\* a post on the external video host: lines 232-270
RedGifs ==
  \E p \in saved :
    /\ pc = "for" /\ nposts < MaxPosts /\ Branch(p) = "video"
    /\ nposts' = nposts + 1
    /\ IF rg_match(p.url) = <<>>
         THEN \* Could not parse RedGifs ID
              /\ last' = Unit(p, "video", NoFilename, "Failed", <<>>, FALSE, NoHead, "none")
              /\ streak' = 0
              /\ UNCHANGED << disk, token, deleted_redgifs_count, skipped_files_count,
                              consecutive_skipped_count, pc, ended, post, i >>
         ELSE \E auth1 \in (IF token = "" THEN AuthAnswers(token) ELSE {""}) :
              \E resp1 \in (IF token = "" /\ auth1 = "" THEN {NoMeta} ELSE MetaAnswers) :
              \E auth2 \in (IF resp1 = "401" THEN AuthAnswers(IF token = "" THEN auth1 ELSE token)
                                               ELSE {""}) :
              \E resp2 \in (IF resp1 = "401" /\ auth2 # "" THEN MetaAnswers ELSE {NoMeta}) :
                LET m == get_media_info(token, auth1, resp1, auth2, resp2)
                    f == PlainFilename(p, <<"mp4">>)
                IN  /\ token' = m.token
                    /\ deleted_redgifs_count' = DeletedAfter(m.ret, deleted_redgifs_count)
                    /\ IF m.ret = "hd"
                         THEN \E head \in HeadsFor(disk, f, TRUE) :
                              \E get \in GetsFor(disk, f, TRUE, head) :
                                LET r == download_file(disk, f, TRUE, head, get)
                                    rq == m.reqs \o r.reqs
                                IN  /\ last' = Unit(p, "video", f, r.outcome, rq, r.ret = "raise",
                                                    head, get.kind)
                                    /\ streak' = StreakAfter(r.outcome)
                                    /\ IF r.ret = "raise"
                                         THEN \* except Exception: logged, continue
                                              /\ disk' = r.disk
                                              /\ UNCHANGED << skipped_files_count,
                                                   consecutive_skipped_count, pc, ended,
                                                   post, i >>
                                         ELSE AfterDownload(r, "for", NoPost, 0)
                         ELSE /\ last' = Unit(p, "video", NoFilename,
                                              IF m.ret = "raise410" THEN "Gone" ELSE "Failed",
                                              m.reqs, FALSE, NoHead, "none")
                              /\ streak' = 0
                              /\ UNCHANGED << disk, skipped_files_count,
                                              consecutive_skipped_count, pc, ended, post, i >>
    /\ UNCHANGED << CONSECUTIVE_SKIP_LIMIT, saved, session, wire, cycle, unattempted >>

Next ==
  \/ StartCycle
  \/ FeedExhausted
  \/ FeedError
  \/ GalleryItem
  \/ DirectImage
  \/ RedGifs
  \/ Ignored

\* small saved lists: every branch of the loop body, each with a post that
\* issues no fetch
SavedLists ==
  { {GalleryPost, BrokenGalleryPost, OtherPost},
    {ImagePost, WebpPost, BareVideoPost},
    {ImagePost, GalleryPost},
    {VideoPost} }

Init == Start /\ saved \in SavedLists
Spec == Init /\ [][Next]_vars

\* the saved list holds every post of the catalog
InitCatalog == Start /\ saved = Catalog
SpecCatalog == InitCatalog /\ [][Next]_vars

\* time.sleep() returns and `while True` calls main() again
FairSpec == Spec /\ WF_vars(StartCycle)

\* the runs of main seen at the session: the requests that pass its adapter
NextTransport ==
  \/ StartCycle
  \/ FeedExhausted
  \/ FeedError
  \/ Send
  \/ Respond

SpecTransport == Init /\ [][NextTransport]_vars

TypeOK ==
  /\ CONSECUTIVE_SKIP_LIMIT \in 0..MaxLimit
  /\ saved \subseteq Catalog
  /\ \A f \in Filenames : disk[f].exists \in BOOLEAN /\ disk[f].size \in 0..BodyLen
  /\ token \in {""} \cup Tokens
  /\ pc \in {"sleep", "for", "gallery"}
  /\ ended \in {"none", "exhausted", "connection", "exception", "breaker"}
  /\ cycle \in {"none", "first", "later"}
  /\ nposts \in 0..MaxPosts
  /\ session \in {"none", "first", "later"}
  /\ wire.method \in Methods \cup {"none"}
  /\ wire.sent \in 0..(total + 1)
  /\ wire.answer \in RawAnswers \cup {NoRaw}
  /\ wire.state \in {"idle", "waiting", "returned", "raised"}

(***************************************************************************)
(* Properties                                                              *)
(***************************************************************************)
\* a step that processes one unit of work (a post, or one gallery item)
UnitStep == pc \in {"for", "gallery"} /\ (nposts' = nposts + 1 \/ pc = "gallery")

UnitAction == GalleryItem \/ DirectImage \/ RedGifs \/ Ignored

MetaCalls(reqs) == { k \in 1..Len(reqs) : reqs[k].op = "META" }
AuthCalls(reqs) == { k \in 1..Len(reqs) : reqs[k].op = "AUTH" }

\* C1: with a threshold T > 0, as soon as T units in a row have ended Skipped
\* the run has terminated through the circuit breaker (also mid-gallery), and
\* no step that processes a post or a gallery item, hence no request, is
\* possible in that run any more.
C1_CircuitBreaker ==
  (CONSECUTIVE_SKIP_LIMIT > 0 /\ streak >= CONSECUTIVE_SKIP_LIMIT)
    => (pc = "sleep" /\ ended = "breaker" /\ ~ENABLED UnitAction)

\* the breaker stops the run inside a gallery, after an image and the first
\* gallery item were skipped in a row
C1_Witness ==
  /\ CONSECUTIVE_SKIP_LIMIT = 2
  /\ streak = 2
  /\ ended = "breaker"
  /\ last.kind = "gallery"
  /\ last.outcome = "Skipped"
  /\ unattempted = 1

\* C3: in one resolve, a metadata call answered 401 and followed by a
\* re-authentication that yields a token is followed by exactly one more
\* metadata call, which carries that new token; when that call is answered 401
\* too the unit ends Failed with no further authentication, metadata call or
\* fetch; a resolve issues at most two metadata calls.
C3_TokenRefresh ==
  last.kind = "video" =>
    LET rq == last.reqs IN
    /\ Cardinality(MetaCalls(rq)) <= 2
    /\ \A k \in MetaCalls(rq) :
         (rq[k].ans = "401" /\ k = CHOOSE j \in MetaCalls(rq) : \A h \in MetaCalls(rq) : j <= h)
           => /\ Len(rq) > k /\ rq[k+1].op = "AUTH"
              /\ rq[k+1].tok # ""
                   => /\ Len(rq) >= k + 2
                      /\ rq[k+2].op = "META"
                      /\ rq[k+2].tok = rq[k+1].tok
                      /\ token = rq[k+1].tok
                      /\ \A h \in (k+3)..Len(rq) : rq[h].op \in {"HEAD", "GET"}
                      /\ rq[k+2].ans = "401"
                           => (Len(rq) = k + 2 /\ last.outcome = "Failed")
              /\ rq[k+1].tok = "" => (Len(rq) = k + 1 /\ last.outcome = "Failed")

\* a 401, a re-authentication that hands out a different token, and a retried
\* call with that token that is rejected as well
C3_Witness ==
  /\ last.kind = "video"
  /\ Len(last.reqs) = 3
  /\ last.reqs[1].op = "META" /\ last.reqs[1].ans = "401"
  /\ last.reqs[2].op = "AUTH" /\ last.reqs[2].tok \notin {"", last.reqs[1].tok}
  /\ last.reqs[3].op = "META" /\ last.reqs[3].ans = "401"
  /\ last.outcome = "Failed"

\* C6: a unit in which a metadata call (the first, or the one retried after a
\* token refresh) is answered 410 ends upstream-gone: deleted_redgifs_count
\* grows by exactly 1, that metadata call is the unit's last request (no retry,
\* no HEAD, no GET) and nothing is written; the count grows in no other step of
\* a run.
C6_UpstreamGone ==
  [][ /\ (UnitStep /\ \E k \in MetaCalls(last'.reqs) : last'.reqs[k].ans = "410")
        => /\ deleted_redgifs_count' = deleted_redgifs_count + 1
           /\ last'.outcome = "Gone"
           /\ last'.reqs[Len(last'.reqs)].ans = "410"
           /\ Cardinality({ k \in MetaCalls(last'.reqs) : last'.reqs[k].ans = "410" }) = 1
           /\ ~HasReq(last'.reqs, "HEAD") /\ ~HasReq(last'.reqs, "GET")
           /\ disk' = disk
           /\ UNCHANGED << skipped_files_count, consecutive_skipped_count >>
      /\ (UnitStep /\ deleted_redgifs_count' # deleted_redgifs_count)
        => \E k \in MetaCalls(last'.reqs) : last'.reqs[k].ans = "410" ]_vars

\* the call retried after a token refresh is answered 410
C6_Witness ==
  /\ last.outcome = "Gone"
  /\ deleted_redgifs_count = 1
  /\ Cardinality(MetaCalls(last.reqs)) = 2
  /\ last.reqs[Len(last.reqs)].ans = "410"

\* the unit of this step called download_file on a destination that existed
FetchOnExisting == UnitStep /\ last'.file \in Filenames /\ disk[last'.file].exists

\* C2 (as claimed): a unit whose target was downloaded before (the complete
\* file is on disk) and in which no request fails ends Skipped and writes
\* nothing.
C2_Claim ==
  [][ (FetchOnExisting /\ disk[last'.file] = File(BodyLen) /\ last'.outcome # "Failed")
        => (last'.outcome = "Skipped" /\ disk' = disk) ]_vars

\* C2 (amended): a unit whose destination file is on disk ends Skipped, issues
\* no GET and writes nothing, provided that, for an external video, the size
\* probe answers a content-length that is positive and equal to the local size;
\* a direct image or gallery item issues no request at all.
C2_Idempotent ==
  [][ ( /\ FetchOnExisting
        /\ last'.kind = "video"
             => /\ last'.head.kind = "num"
                /\ last'.head.n > 0
                /\ last'.head.n = disk[last'.file].size )
        => /\ last'.outcome = "Skipped"
           /\ disk' = disk
           /\ ~HasReq(last'.reqs, "GET")
           /\ last'.kind # "video" => last'.reqs = <<>> ]_vars

\* a video downloaded in the first cycle is skipped in the second
C2_Witness ==
  /\ cycle = "later"
  /\ last.kind = "video"
  /\ last.outcome = "Skipped"
  /\ last.before = File(BodyLen)

\* C4 (as claimed): when the loop is done with a gallery post of N items without
\* the circuit breaker having stopped the run, download_file was called for
\* each of the N items.
C4_Claim ==
  (last.kind = "gallery" /\ pc # "gallery" /\ ended # "breaker") => unattempted = 0

\* C5 (as claimed): download_file with check_size on an existing destination,
\* given the probe's content-length R (or none) and the local size S, ends
\* Skipped without writing when R = S, and otherwise issues the download, which
\* overwrites the local file when it succeeds.
C5_Claim ==
  [][ ( /\ FetchOnExisting
        /\ last'.kind = "video"
        /\ last'.head.kind \in {"num", "absent"} )
        => IF last'.head.kind = "num" /\ last'.head.n = disk[last'.file].size
             THEN last'.outcome = "Skipped" /\ disk' = disk
             ELSE /\ HasReq(last'.reqs, "GET")
                  /\ last'.get = "ok"
                       => (last'.outcome = "Downloaded" /\ disk'[last'.file] = File(BodyLen)) ]_vars

\* C5 (amended): it ends Skipped without a GET and without writing when R = S
\* and R > 0; when R differs from S, is zero or is absent it issues the GET,
\* and the local file is replaced by what was received when the answer is 2xx
\* and the destination opens (the whole body when the stream completes), and is
\* left as it was when the GET fails or the destination cannot be opened.
C5_SizeVerified ==
  [][ ( /\ FetchOnExisting
        /\ last'.kind = "video"
        /\ last'.head.kind \in {"num", "absent"} )
        => LET f == last'.file IN
           IF last'.head.kind = "num" /\ last'.head.n = disk[f].size /\ last'.head.n > 0
             THEN /\ last'.outcome = "Skipped"
                  /\ disk' = disk
                  /\ ~HasReq(last'.reqs, "GET")
             ELSE /\ HasReq(last'.reqs, "GET")
                  /\ last'.outcome # "Skipped"
                  /\ \A g \in Filenames \ {f} : disk'[g] = disk[g]
                  /\ last'.get = "ok"
                       => (last'.outcome = "Downloaded" /\ disk'[f] = File(BodyLen))
                  /\ last'.get \in {"break", "write_oserror"}
                       => (disk'[f].exists /\ disk'[f].size < BodyLen)
                  /\ last'.get \in {"http", "conn", "open_oserror"}
                       => disk'[f] = disk[f] ]_vars

\* an empty local file and a content-length of 0: downloaded again
C5_Witness ==
  /\ last.kind = "video"
  /\ last.before = File(0)
  /\ last.head = [kind |-> "num", n |-> 0]
  /\ last.outcome = "Downloaded"
  /\ disk[last.file] = File(BodyLen)

\* C7 (as claimed): an exception raised while a unit is processed never ends
\* the run.
C7_Claim == last.exc => ended # "exception"

\* C8 (as claimed): for a unit in which no exception is raised,
\* skipped_files_count grows by one exactly when the unit ends Skipped,
\* consecutive_skipped_count grows by one when it ends Skipped and is 0 after a
\* unit that ends Downloaded or Failed.
C8_Claim ==
  [][ (UnitStep /\ ~last'.exc)
        => /\ skipped_files_count' =
                skipped_files_count + (IF last'.outcome = "Skipped" THEN 1 ELSE 0)
           /\ last'.outcome = "Skipped"
                => consecutive_skipped_count' = consecutive_skipped_count + 1
           /\ last'.outcome \in {"Downloaded", "Failed"}
                => consecutive_skipped_count' = 0 ]_vars

\* C9 (as claimed): the first unit of a later run whose destination is a file
\* left incomplete, with some chunks written, by a failed stream of an earlier
\* run does not end Skipped.
C9_Claim ==
  [][ ( /\ FetchOnExisting
        /\ cycle = "later" /\ nposts = 0
        /\ disk[last'.file].size \in 1..(BodyLen - 1) )
        => last'.outcome # "Skipped" ]_vars

\* C10 (as claimed): a cached token is replaced only by a unit in which a
\* metadata call was answered 401, the auth endpoint is called only while the
\* cache is empty or right after a 401, and after a failed authentication with
\* an empty cache no metadata call is issued and the cache stays empty.
C10_Claim ==
  [][ /\ (token # "" /\ token' # token)
        => (UnitStep /\ \E k \in MetaCalls(last'.reqs) : last'.reqs[k].ans = "401")
      /\ UnitStep
        => \A k \in AuthCalls(last'.reqs) :
             \/ k = 1 /\ token = ""
             \/ k > 1 /\ last'.reqs[k-1].op = "META" /\ last'.reqs[k-1].ans = "401"
      /\ (UnitStep /\ last'.reqs # <<>> /\ last'.reqs[1].op = "AUTH" /\ last'.reqs[1].tok = "")
        => (Len(last'.reqs) = 1 /\ token' = "") ]_vars

\* C11: whenever no run is in progress (before the first cycle, after a run
\* that returned, was stopped by the breaker, or raised a connection error or
\* any other exception) a download cycle eventually starts; the scheduler
\* sleeps 60 seconds after a connection error and the polling interval after
\* every other end of a run.
C11_NeverDies ==
  /\ (pc = "sleep") ~> (pc = "for")
  /\ [](pc = "sleep" /\ ended = "connection" => Naptime = 60)
  /\ [](pc = "sleep" /\ ended \in {"exhausted", "breaker", "exception"}
          => Naptime = TIME_BETWEEN_DOWNLOADS)

\* a run of a later cycle was ended by an exception of a gallery item
C11_Witness ==
  /\ pc = "sleep"
  /\ cycle = "later"
  /\ ended = "exception"
  /\ last.kind = "gallery"
  /\ last.exc

\* C12: a direct image or gallery item (download_file without check_size)
\* whose destination exists ends Skipped, issues no request at all, leaves the
\* disk as it was and is counted as one skip.
C12_CheapSkip ==
  [][ (FetchOnExisting /\ last'.kind \in {"gallery", "image"})
        => /\ last'.outcome = "Skipped"
           /\ ~last'.exc
           /\ last'.reqs = <<>>
           /\ disk' = disk
           /\ skipped_files_count' = skipped_files_count + 1 ]_vars

\* a direct image whose file is on disk is skipped without a request
C12_Witness ==
  /\ last.kind = "image"
  /\ last.before.exists
  /\ last.outcome = "Skipped"
  /\ last.reqs = <<>>
  /\ disk[last.file] = last.before

\* C13: when the destination of a video exists and the size probe fails (the
\* HEAD raises, or content-length is not a number) the unit ends Failed: the
\* HEAD is its only fetch request, no GET follows, the disk is as it was,
\* skipped_files_count is unchanged and consecutive_skipped_count is 0.
C13_FailedProbe ==
  [][ (FetchOnExisting /\ last'.kind = "video" /\ last'.head.kind \in {"conn", "garbage"})
        => /\ last'.outcome = "Failed"
           /\ ~last'.exc
           /\ HasReq(last'.reqs, "HEAD")
           /\ ~HasReq(last'.reqs, "GET")
           /\ disk' = disk
           /\ skipped_files_count' = skipped_files_count
           /\ consecutive_skipped_count' = 0 ]_vars

\* the probe of a complete local video answers an unparseable content-length
C13_Witness ==
  /\ last.kind = "video"
  /\ last.before = File(BodyLen)
  /\ last.head.kind = "garbage"
  /\ last.outcome = "Failed"
  /\ disk[last.file] = File(BodyLen)

\* C14: a unit whose download GET is answered with a non-2xx status ends
\* Failed without an exception, the disk is as it was (the destination is
\* neither created nor truncated), skipped_files_count is unchanged and
\* consecutive_skipped_count is 0.
C14_BadStatus ==
  [][ (UnitStep /\ last'.get = "http")
        => /\ HasReq(last'.reqs, "GET")
           /\ last'.outcome = "Failed"
           /\ ~last'.exc
           /\ disk' = disk
           /\ skipped_files_count' = skipped_files_count
           /\ consecutive_skipped_count' = 0 ]_vars

\* a video re-downloaded after a size mismatch meets a non-2xx status and the
\* local file keeps its content
C14_Witness ==
  /\ last.kind = "video"
  /\ last.before.exists /\ last.before.size > 0
  /\ last.head.kind = "num" /\ last.head.n # last.before.size
  /\ last.get = "http"
  /\ disk[last.file] = last.before

\* how the loop body treated the post of a unit: an Ignored post by no branch
Treated(u) == IF u.outcome = "Ignored" THEN "other" ELSE u.kind

\* C15 (as claimed): every post is treated by the first rule that matches it
\* in the order gallery flag, direct-image host with an allow-listed
\* extension, video host, else none; so a post on a direct-image host whose
\* extension is not allow-listed and whose URL matches the video host is
\* treated as an external video.
C15_Claim ==
  [][ UnitStep =>
        LET p == last'.post
            rule == IF p.is_gallery THEN "gallery"
                    ELSE IF IsDirectHost(p.url) /\ LastAfter(p.url, ".") \in AllowedExtensions
                      THEN "image"
                    ELSE IF IsVideoHost(p.url) THEN "video"
                    ELSE "other"
        IN  Treated(last') = rule ]_vars

\* C16: with CONSECUTIVE_SKIP_LIMIT = 0 no run is ever ended by the circuit
\* breaker, and a unit that ends Skipped never ends the run: the loop goes on
\* with the next gallery item when the post has one left, else with the feed.
C16_Disabled ==
  CONSECUTIVE_SKIP_LIMIT = 0
    => /\ ended # "breaker"
       /\ last.outcome = "Skipped"
            => /\ pc \in {"for", "gallery"}
               /\ ended = "none"
               /\ (last.kind = "gallery" /\ unattempted > 0) => pc = "gallery"

\* three units in a row (an image and both items of a gallery) ended Skipped
\* and the run goes on
C16_Witness ==
  /\ CONSECUTIVE_SKIP_LIMIT = 0
  /\ streak = 3
  /\ consecutive_skipped_count = 3
  /\ pc = "for"

\* the adapter sends the request of the wire once more in this step
Resent == wire.state = "waiting" /\ wire'.state = "waiting" /\ wire'.sent = wire.sent + 1

\* C17 (as claimed): a request is sent again at most 5 times, only when it is a
\* HEAD or a GET, and only after a 502, 503 or 504 or a connection-level
\* failure; and the session a run uses is the one the runs before it used.
C17_Claim ==
  [][ /\ Resent
        => /\ wire'.sent <= 1 + 5
           /\ wire.method \in {"HEAD", "GET"}
           /\ \/ wire'.answer.kind \in {"connect", "read"}
              \/ wire'.answer.code \in {502, 503, 504}
      /\ session # "none" => session' = session ]_vars

\* C18: the step that starts a run of main sets deleted_redgifs_count,
\* skipped_files_count and consecutive_skipped_count to 0, whatever they were
\* when the run before ended, and they are 0 when the first post of the run is
\* taken from the feed.
C18_Reset ==
  [][ /\ (pc = "sleep" /\ pc' = "for")
        => /\ deleted_redgifs_count' = 0
           /\ skipped_files_count' = 0
           /\ consecutive_skipped_count' = 0
      /\ (UnitStep /\ pc = "for" /\ nposts = 0)
        => /\ deleted_redgifs_count = 0
           /\ skipped_files_count = 0
           /\ consecutive_skipped_count = 0 ]_vars

\* a later run has started with a limit of 1 and a file on disk that the run
\* before can have skipped: its counters are 0
C18_Witness ==
  /\ cycle = "later"
  /\ pc = "for"
  /\ nposts = 0
  /\ CONSECUTIVE_SKIP_LIMIT = 1
  /\ \E f \in Filenames : disk[f].exists
  /\ skipped_files_count = 0
  /\ consecutive_skipped_count = 0
  /\ deleted_redgifs_count = 0

\* C19: in every state 0 <= consecutive_skipped_count <= skipped_files_count;
\* with a limit T > 0 consecutive_skipped_count is at most T, and below T
\* whenever the loop is about to process a unit.
C19_Counters ==
  /\ 0 <= consecutive_skipped_count
  /\ consecutive_skipped_count <= skipped_files_count
  /\ CONSECUTIVE_SKIP_LIMIT > 0
       => /\ consecutive_skipped_count <= CONSECUTIVE_SKIP_LIMIT
          /\ pc \in {"for", "gallery"} => consecutive_skipped_count < CONSECUTIVE_SKIP_LIMIT

\* skipped, failed, skipped: the two counters differ and the run goes on
C19_Witness ==
  /\ CONSECUTIVE_SKIP_LIMIT = 2
  /\ skipped_files_count = 2
  /\ consecutive_skipped_count = 1
  /\ pc = "for"

=============================================================================
